---- MODULE Spec2Model ----
(***************************************************************************)
(* Model of src/bin/timing.rs: the single-GPIO timing tests of             *)
(* embassy-pico-test.  The firmware is built for one platform (Pico or     *)
(* Pico 2) and one test number; main calls Test::single_gpio, which        *)
(* selects the test and enters its toggle loop.  The assembly tests are    *)
(* modelled one instruction per step, with registers, the GPIO output      *)
(* register and a cycle counter; the embassy tests one statement per step. *)
(***************************************************************************)
EXTENDS Integers, Sequences, FiniteSets, TLC

VARIABLES
    platform,   \* "pico" or "pico2": the build feature (IS_PICO2)
    test_num,   \* the TestNum variant selected by the build, as its name "T1".."T25"
    pc,         \* position of main / Test::single_gpio
    ip,         \* index of the next operation in the code being executed
    prim,       \* the delay primitive under test (primitive specification), else "-"
    task,       \* "running" or "suspended": state of the only executor task
    pin,        \* level of GPIO 2 as last driven: "low" or "high"
    drive,      \* drive strength configured on the pin
    gpio_out,   \* the 32-bit GPIO output register, four bytes, most significant first
    gpio_before,\* the value of the output register before the last write to it
    stray,      \* TRUE once a str went to an address other than GPIO_OUT
    regs,       \* registers r0, r1, r2, each four bytes
    log,        \* the diagnostic lines emitted so far
    panic_msg,  \* the panic message, <<>> when the program has not panicked
    first_write,\* level of the first pin write of the loop, "none" before it
    prev_write, \* level of the pin write before the last one
    last_write, \* level of the last pin write
    since,      \* pause operations executed since the last pin write
    pause_before,\* pause operations between the last two pin writes
    pause_of,   \* per level, the pause that followed the previous write of that level
    pause_old,  \* the pause of the same phase one iteration before pause_before
    cyc,        \* cycles of the current loop iteration: total, work, nop
    period,     \* cycles of the last completed loop iteration
    nop_pend,   \* TRUE when the last instruction was a nop still waiting for a pair
    suspends,   \* suspension points passed since the last pin write
    services,   \* delay/timer service calls since the last pin write
    now,        \* the timer tick count (microseconds)
    start,      \* the instant read before the loop of test 19
    expires,    \* the running deadline of test 19
    npause      \* number of deadline pauses started in test 19

vars == <<platform, test_num, pc, ip, prim, task, pin, drive, gpio_out, gpio_before, stray,
          regs, log, panic_msg, first_write, prev_write, last_write, since,
          pause_before, pause_of, pause_old, cyc, period, nop_pend, suspends,
          services, now, start, expires, npause>>

(***************************************************************************)
(* Bounds of the model.                                                    *)
(***************************************************************************)
MaxTime == 60      \* test 19 stops adding to the deadline beyond this tick
MaxLate == 12      \* a timer wake-up is late by at most this many ticks

(***************************************************************************)
(* 32-bit words as four bytes, most significant first.                     *)
(***************************************************************************)
Byte == 0..255

Imm(n) == <<0, 0, 0, n>>

\* wrapping 32-bit addition
AddW(a, b) ==
    LET s4 == a[4] + b[4]
        s3 == a[3] + b[3] + (s4 \div 256)
        s2 == a[2] + b[2] + (s3 \div 256)
        s1 == a[1] + b[1] + (s2 \div 256)
    IN  <<s1 % 256, s2 % 256, s3 % 256, s4 % 256>>

\* logical shift left by n bits, n a multiple of 8
Lsls(w, n) ==
    LET k == n \div 8
    IN  [i \in 1..4 |-> IF i + k <= 4 THEN w[i + k] ELSE 0]

Bit(w, n) == (w[4 - (n \div 8)] \div (2 ^ (n % 8))) % 2

SetBit(w, n) ==
    IF Bit(w, n) = 1 THEN w
    ELSE [w EXCEPT ![4 - (n \div 8)] = @ + 2 ^ (n % 8)]

ClearBit(w, n) ==
    IF Bit(w, n) = 0 THEN w
    ELSE [w EXCEPT ![4 - (n \div 8)] = @ - 2 ^ (n % 8)]

SIO_BASE == <<208, 0, 0, 0>>
GPIO_OUT == AddW(SIO_BASE, Imm(16))

(***************************************************************************)
(* Platform facts.                                                         *)
(***************************************************************************)
Platforms == {"pico", "pico2"}

IS_PICO2(p) == p = "pico2"

BOARD(p) == IF IS_PICO2(p) THEN "Pico 2" ELSE "Pico"

ClockMHz(p) == IF IS_PICO2(p) THEN 150 ELSE 125

\* cycles of the loop's backward branch
BranchCycles(p) == IF IS_PICO2(p) THEN 1 ELSE 2

(***************************************************************************)
(* TestNum: a #[repr(i32)] enum T1 = 1, T2, ..., T25.                      *)
(***************************************************************************)
TestNumNames ==
    <<"T1", "T2", "T3", "T4", "T5", "T6", "T7", "T8", "T9", "T10",
      "T11", "T12", "T13", "T14", "T15", "T16", "T17", "T18", "T19", "T20",
      "T21", "T22", "T23", "T24", "T25">>

TestNum == {TestNumNames[i] : i \in 1..Len(TestNumNames)}

Features == 1..Len(TestNumNames)

\* TestNum::get: #[cfg(feature = "n")] return TestNum::Tn
TestNumGet(n) == TestNumNames[n]

\* `test_num as i32`: the discriminant, the first is 1 and each next one more
AsI32(t) == CHOOSE i \in 1..Len(TestNumNames) : TestNumNames[i] = t

DigitChars == <<"0", "1", "2", "3", "4", "5", "6", "7", "8", "9">>

RECURSIVE Digits(_)
\* Display of a non-negative integer: its decimal digits
Digits(n) ==
    IF n < 10 THEN <<DigitChars[n + 1]>>
    ELSE Digits(n \div 10) \o <<DigitChars[(n % 10) + 1]>>


(***************************************************************************)
(* Operations.  Every operation of a loop body is a record of the same     *)
(* shape: fn is the function or macro argument it belongs to, op the       *)
(* statement or instruction, rd/rn/rm its registers and imm its immediate  *)
(* or duration.                                                            *)
(***************************************************************************)
Op(f, o, d, n, m, i) == [fn |-> f, op |-> o, rd |-> d, rn |-> n, rm |-> m, imm |-> i]

Stmt(f, o, i) == Op(f, o, "-", "-", "-", i)

Movs(f, d, i) == Op(f, "movs", d, "-", "-", i)
LslsI(f, d, n, i) == Op(f, "lsls", d, n, "-", i)
AddsI(f, d, n, i) == Op(f, "adds_imm", d, n, "-", i)
AddsR(f, d, n, m) == Op(f, "adds_reg", d, n, m, 0)
Str(f, t, n) == Op(f, "str", t, n, "-", 0)
Nop(f) == Op(f, "nop", "-", "-", "-", 0)
B(f) == Op(f, "b", "-", "-", "-", 0)

Rep(n, x) == [i \in 1..n |-> x]

(***************************************************************************)
(* The assembly primitives, instruction by instruction.                    *)
(***************************************************************************)
\* the address load with the base shifted by two bytes instead of three
asm_load_gpio_out_addr_shift16 ==
    LET f == "asm_load_gpio_out_addr"
    IN  <<Movs(f, "r1", 208), LslsI(f, "r1", "r1", 16), Movs(f, "r2", 16),
          AddsR(f, "r0", "r1", "r2")>>

asm_load_gpio_out_addr ==
    LET f == "asm_load_gpio_out_addr"
    IN  <<Movs(f, "r1", 208), LslsI(f, "r1", "r1", 24), Movs(f, "r2", 16),
          AddsR(f, "r0", "r1", "r2")>>

set_gpio2_high ==
    <<Movs("set_gpio2_high", "r1", 4), Str("set_gpio2_high", "r1", "r0")>>

\* set_gpio2_low with the value of set_gpio2_high left in place
set_gpio2_low_copied ==
    <<Movs("set_gpio2_low", "r1", 4), Str("set_gpio2_low", "r1", "r0")>>

set_gpio2_low ==
    <<Movs("set_gpio2_low", "r1", 0), Str("set_gpio2_low", "r1", "r0")>>

\* movs r2, #1 followed by n adds r2, r2, #1
MovsAdds(f, n) == <<Movs(f, "r2", 1)>> \o Rep(n, AddsI(f, "r2", "r2", 1))

asm_1_cycle_r2 == MovsAdds("asm_1_cycle_r2", 0)

asm_2_cycles_add_r2 == MovsAdds("asm_2_cycles_add_r2", 1)

asm_3_cycles_add_r2 == MovsAdds("asm_3_cycles_add_r2", 2)

\* asm_5_cycles_r2 with one adds too few
asm_5_cycles_r2_short == MovsAdds("asm_5_cycles_r2", 3)

asm_5_cycles_r2 == MovsAdds("asm_5_cycles_r2", 4)

asm_9_cycles_add_r2 == MovsAdds("asm_9_cycles_add_r2", 8)

asm_10_cycles_add_r2 == MovsAdds("asm_10_cycles_add_r2", 9)

asm_9_cycles_nop == Rep(9, Nop("asm_9_cycles_nop"))

asm_10_cycles_nop == Rep(10, Nop("asm_10_cycles_nop"))

\* #[cfg(feature = "pico")] and #[cfg(feature = "pico2")] on a statement
CfgPico(p, code) == IF IS_PICO2(p) THEN <<>> ELSE code
CfgPico2(p, code) == IF IS_PICO2(p) THEN code ELSE <<>>

\* the closing brace of `loop { ... }` in the assembly routines: a backward branch
LoopBranch == <<B("loop")>>

\* the loop of test 14 with the adds delays in place of the nops
asm_toggle_gpio2_period_200ns_pico_adds(p) ==
    set_gpio2_high \o asm_10_cycles_add_r2 \o set_gpio2_low \o asm_9_cycles_add_r2
        \o LoopBranch

asm_toggle_gpio2_period_200ns_pico(p) ==
    set_gpio2_high \o asm_10_cycles_nop \o set_gpio2_low \o asm_9_cycles_nop
        \o LoopBranch

\* the loop of test 15 without the Pico 2's extra cycles after the low write
asm_toggle_gpio2_period_200ns_no_extra(p) ==
    set_gpio2_high \o asm_10_cycles_add_r2 \o CfgPico2(p, asm_3_cycles_add_r2)
        \o set_gpio2_low \o asm_9_cycles_add_r2
        \o LoopBranch

asm_toggle_gpio2_period_200ns(p) ==
    set_gpio2_high \o asm_10_cycles_add_r2 \o CfgPico2(p, asm_3_cycles_add_r2)
        \o set_gpio2_low \o asm_9_cycles_add_r2 \o CfgPico2(p, asm_3_cycles_add_r2)
        \o LoopBranch

\* the loop of test 16 with the Pico's high pause on both platforms
asm_toggle_gpio2_period_80ns_same(p) ==
    set_gpio2_high \o asm_2_cycles_add_r2
        \o set_gpio2_low \o asm_2_cycles_add_r2 \o CfgPico2(p, asm_2_cycles_add_r2)
        \o LoopBranch

asm_toggle_gpio2_period_80ns(p) ==
    set_gpio2_high \o CfgPico(p, asm_2_cycles_add_r2) \o CfgPico2(p, asm_3_cycles_add_r2)
        \o set_gpio2_low \o asm_2_cycles_add_r2 \o CfgPico2(p, asm_2_cycles_add_r2)
        \o LoopBranch

asm_toggle_gpio2_period_min(p) ==
    set_gpio2_high \o set_gpio2_low \o LoopBranch

(***************************************************************************)
(* The embassy tests: the single_gpio! macro and the pause blocks.         *)
(***************************************************************************)
\* the macro with set_high in place of set_low
single_gpio_high_twice(pause) ==
    <<Stmt("pin", "set_high", 0)>> \o pause \o <<Stmt("pin", "set_high", 0)>> \o pause

\* loop { $pin.set_high(); $pause $pin.set_low(); $pause }
single_gpio(pause) ==
    <<Stmt("pin", "set_high", 0)>> \o pause \o <<Stmt("pin", "set_low", 0)>> \o pause

\* a timer wait awaited twice
TimerAfterMicrosTwice(us) ==
    <<Stmt("pause", "timer_after", us), Stmt("pause", "timer_after", us)>>
\* a timer wait given the whole period instead of half of it
TimerAfterMicrosWhole(us) == <<Stmt("pause", "timer_after", 2 * us)>>
TimerAfterMicros(us) == <<Stmt("pause", "timer_after", us)>>
\* a blocking delay that also yields
DelayUsYields(us) == <<Stmt("pause", "delay_us", us), Stmt("pause", "yield_now", 0)>>
DelayUs(us) == <<Stmt("pause", "delay_us", us)>>
DelayNs(ns) == <<Stmt("pause", "delay_ns", ns)>>
\* the yield placed before the blocking delay
YieldThenDelayUs(us) == <<Stmt("pause", "yield_now", 0), Stmt("pause", "delay_us", us)>>
DelayUsThenYield(us) == <<Stmt("pause", "delay_us", us), Stmt("pause", "yield_now", 0)>>
CortexDelay(n) == <<Stmt("pause", "cm_delay", n)>>
DeadlinePause(us) == <<Stmt("pause", "expires_add", us), Stmt("pause", "timer_at", 0)>>

\* the loop of test 19, written out in the match arm
DeadlineLoop ==
    <<Stmt("pin", "set_high", 0)>> \o DeadlinePause(10)
        \o <<Stmt("pin", "set_low", 0)>> \o DeadlinePause(10)

MacroTests == {"T1", "T2", "T3", "T4", "T5", "T6", "T7", "T8", "T9", "T10",
               "T11", "T12", "T13"}
AsmTests == {"T14", "T15", "T16", "T17", "T18"}
Implemented == MacroTests \cup AsmTests \cup {"T19"}

\* the $pause argument of each single_gpio! invocation
PauseBlock(t) ==
    CASE t = "T1" -> TimerAfterMicros(100)
      [] t = "T2" -> TimerAfterMicros(10)
      [] t = "T3" -> TimerAfterMicros(1)
      [] t = "T4" -> DelayUs(100)
      [] t = "T5" -> DelayUs(10)
      [] t = "T6" -> DelayUs(2)
      [] t = "T7" -> DelayUs(1)
      [] t = "T8" -> DelayNs(100)
      [] t = "T9" -> DelayUsThenYield(100)
      [] t = "T10" -> DelayUsThenYield(10)
      [] t = "T11" -> DelayUsThenYield(1)
      [] t = "T12" -> CortexDelay(2)
      [] t = "T13" -> <<>>

\* the $desc argument of each single_gpio! invocation
Desc(t) ==
    CASE t = "T1" -> "~200us period using yielding Timer::after_micros"
      [] t = "T2" -> "~20us period using yielding Timer::after_micros"
      [] t = "T3" -> "~2us period using yielding Timer::after_micros"
      [] t = "T4" -> "200us period using blocking Delay.delay_us"
      [] t = "T5" -> "20us period using blocking Delay.delay_us"
      [] t = "T6" -> "4us period using blocking Delay.delay_us"
      [] t = "T7" -> "2us period using blocking Delay.delay_us"
      [] t = "T8" -> "not near 200ns period using blocking Delay.delay_ns"
      [] t = "T9" -> "~200us period using blocking Delay.delay_us then yield_now()"
      [] t = "T10" -> "~20us period using blocking Delay.delay_us then yield_now()"
      [] t = "T11" -> "~2us period using blocking Delay.delay_us then yield_now()"
      [] t = "T12" -> "\"2 cycle\" delay using blocking cortex_m::asm::delay()"
      [] t = "T13" -> "As fast as possible with no delay and embassy GPIO functions"

\* the assembly routine each of the arms T14..T18 calls
AsmRoutine(t, p) ==
    CASE t = "T14" -> asm_toggle_gpio2_period_200ns_pico(p)
      [] t = "T15" -> asm_toggle_gpio2_period_200ns(p)
      [] t = "T16" -> asm_toggle_gpio2_period_80ns(p)
      [] t = "T17" -> asm_toggle_gpio2_period_min(p)
      [] t = "T18" -> asm_toggle_gpio2_period_min(p)

\* the body of the toggle loop the match arm of test t runs
LoopBody(t, p) ==
    CASE t \in MacroTests -> single_gpio(PauseBlock(t))
      [] t \in AsmTests -> AsmRoutine(t, p)
      [] t = "T19" -> DeadlineLoop

Primitives ==
    {"set_gpio2_high", "set_gpio2_low", "asm_1_cycle_r2", "asm_2_cycles_add_r2",
     "asm_3_cycles_add_r2", "asm_5_cycles_r2", "asm_9_cycles_add_r2",
     "asm_10_cycles_add_r2", "asm_9_cycles_nop", "asm_10_cycles_nop"}

PrimCode(f) ==
    CASE f = "set_gpio2_high" -> set_gpio2_high
      [] f = "set_gpio2_low" -> set_gpio2_low
      [] f = "asm_1_cycle_r2" -> asm_1_cycle_r2
      [] f = "asm_2_cycles_add_r2" -> asm_2_cycles_add_r2
      [] f = "asm_3_cycles_add_r2" -> asm_3_cycles_add_r2
      [] f = "asm_5_cycles_r2" -> asm_5_cycles_r2
      [] f = "asm_9_cycles_add_r2" -> asm_9_cycles_add_r2
      [] f = "asm_10_cycles_add_r2" -> asm_10_cycles_add_r2
      [] f = "asm_9_cycles_nop" -> asm_9_cycles_nop
      [] f = "asm_10_cycles_nop" -> asm_10_cycles_nop

(***************************************************************************)
(* Cycle accounting.  On the Pico every instruction takes one cycle and    *)
(* the loop branch two.  On the Pico 2 the branch takes one cycle fewer    *)
(* and nops execute in parallel: a nop that follows an unpaired nop        *)
(* issues together with it and adds no cycle.                              *)
(***************************************************************************)
InstrCycles(p, ins, pend) ==
    CASE ins.op = "b" -> BranchCycles(p)
      [] ins.op = "nop" -> IF IS_PICO2(p) /\ pend THEN 0 ELSE 1
      [] OTHER -> 1

\* whether, after ins, a nop is waiting for a partner to issue with
NopPending(p, ins, pend) == IS_PICO2(p) /\ ins.op = "nop" /\ ~pend

ZeroCyc == [total |-> 0, work |-> 0, nop |-> 0]

Count(c, p, ins, pend) ==
    LET n == InstrCycles(p, ins, pend)
    IN  IF ins.op = "nop"
        THEN [c EXCEPT !.total = @ + n, !.nop = @ + n]
        ELSE [c EXCEPT !.total = @ + n, !.work = @ + n]

(***************************************************************************)
(* Diagnostics.                                                            *)
(***************************************************************************)
ClockHz(p) == ClockMHz(p) * 1000000

MainLog == <<<<"embassy-pico-test">>>>

EntryLog(t, p) ==
    << <<BOARD(p), " clock speed: ">> \o Digits(ClockHz(p)) \o <<" Hz">>,
       <<"Single GPIO Timing test #">> \o Digits(AsI32(t)),
       <<": Using GPIO 2">> >>

Selected(sel, text) == IF sel THEN <<text, "<== selected">> ELSE <<text>>

\* the marker put on the other platform's line
BothPeriodsSwapped(p, pico, pico2) ==
    << Selected(IS_PICO2(p), pico), Selected(~IS_PICO2(p), pico2) >>

\* the if !IS_PICO2 { ... } else { ... } pair of lines of tests 14, 17 and 18
BothPeriods(p, pico, pico2) ==
    << Selected(~IS_PICO2(p), pico), Selected(IS_PICO2(p), pico2) >>

AsmLog(t, p) ==
    CASE t = "T14" ->
            <<<<": Using same assembly for both Pico and Pico 2">>>>
            \o BothPeriods(p, ": 200ns period using asm (Pico)",
                              ": 100ns period using asm (Pico 2)")
            \o <<<<": Starting">>>>
      [] t = "T15" ->
            << <<": Using Pico and Pico 2 specific assembly">>,
               <<": 200ns period using asm on both Pico and Pico 2">>,
               <<": Starting">> >>
      [] t = "T16" ->
            << <<": Using Pico and Pico 2 specific assembly">>,
               <<": 80ns period using asm on both Pico and Pico 2">>,
               <<": Low drive strength (2mA)">>,
               <<": Starting">> >>
      [] t = "T17" ->
            <<<<": Using same assembly for both Pico and Pico 2">>>>
            \o BothPeriods(p, ": 48ns period using asm (Pico)",
                              ": 34ns period using asm (Pico 2)")
            \o << <<": Low drive strength (2mA)">>, <<": Starting">> >>
      [] t = "T18" ->
            <<<<": Using same assembly for both Pico and Pico 2">>>>
            \o BothPeriods(p, ": 48ns period using asm (Pico)",
                              ": 34ns period using asm (Pico 2)")
            \o << <<": High drive strength (12mA)">>, <<": Starting">> >>

\* output.set_drive_strength(...) of the arms T16, T17 and T18
AsmDrive(t, d) ==
    CASE t \in {"T16", "T17"} -> "2mA"
      [] t = "T18" -> "12mA"
      [] OTHER -> d

DeadlineLog ==
    << <<": Using Pico and Pico 2 specific assembly">>,
       <<": 20us period using asm on both Pico and Pico 2">>,
       <<": Uses Timer::at()">>,
       <<": Starting">> >>

\* a bare unimplemented!()
UnimplementedBare(t) == <<"not implemented">>

\* unimplemented!("Test {} not implemented", test_num as i32)
UnimplementedMsg(t) ==
    <<"not implemented: ", "Test ">> \o Digits(AsI32(t)) \o <<" not implemented">>

(***************************************************************************)
(* The state machine.                                                      *)
(***************************************************************************)
RegNames == {"r0", "r1", "r2"}

Ones == <<255, 255, 255, 255>>

\* register contents left by the code that ran before
RegValues == {Imm(0), Ones}

StartTimes == {0, 3}

\* a pause not yet recorded, and a recorded one
Unset == [set |-> FALSE, ops |-> <<>>]
Known(ops) == [set |-> TRUE, ops |-> ops]

Fresh ==
    /\ task = "running"
    /\ pin = "hiz"
    /\ drive = "default"
    /\ stray = FALSE
    /\ log = <<>>
    /\ panic_msg = <<>>
    /\ first_write = "none"
    /\ prev_write = "none"
    /\ last_write = "none"
    /\ since = <<>>
    /\ pause_before = <<>>
    /\ pause_of = [l \in {"none", "high", "low"} |-> Unset]
    /\ pause_old = Unset
    /\ cyc = ZeroCyc
    /\ period = ZeroCyc
    /\ nop_pend = FALSE
    /\ suspends = 0
    /\ services = 0
    /\ start = 0
    /\ expires = 0
    /\ npause = 0

Init ==
    /\ platform \in Platforms
    /\ \E f \in Features : test_num = TestNumGet(f)
    /\ pc = "main"
    /\ ip = 1
    /\ prim = "-"
    /\ regs \in [RegNames -> RegValues]
    /\ now \in StartTimes
    /\ gpio_out = Imm(0)
    /\ gpio_before = gpio_out
    /\ Fresh

\* the code at the current position
Code ==
    CASE pc = "prologue" -> asm_load_gpio_out_addr
      [] pc = "loop" -> LoopBody(test_num, platform)
      [] pc = "prim" -> PrimCode(prim)
      [] OTHER -> <<>>

Running == pc \in {"prologue", "loop", "prim"} /\ task = "running" /\ ip <= Len(Code)

Cur == Code[ip]

Level(w) == IF Bit(w, 2) = 1 THEN "high" ELSE "low"

\* main: info!("embassy-pico-test"), then Test::single_gpio(test_num)
Main ==
    /\ pc = "main"
    /\ pc' = "single_gpio"
    /\ log' = log \o MainLog
    /\ UNCHANGED <<platform, test_num, ip, prim, task, pin, drive, gpio_out, gpio_before,
                   stray,
                   regs, panic_msg, first_write, prev_write, last_write, since,
                   pause_before, pause_of, pause_old, cyc, period, nop_pend,
                   suspends, services, now, start, expires, npause>>

\* Test::single_gpio up to the match: init, the three log lines, Output::new(.., Low)
Entry ==
    /\ pc = "single_gpio"
    /\ pc' = "match"
    /\ log' = log \o EntryLog(test_num, platform)
    /\ gpio_out' = ClearBit(gpio_out, 2)
    /\ gpio_before' = gpio_out
    /\ pin' = Level(gpio_out')
    /\ UNCHANGED <<platform, test_num, ip, prim, task, drive, stray,
                   regs, panic_msg, first_write, prev_write, last_write, since,
                   pause_before, pause_of, pause_old, cyc, period, nop_pend,
                   suspends, services, now, start, expires, npause>>

\* the arms T1..T13: the macro logs the description and ": Starting", then loops
MatchMacro ==
    /\ pc = "match"
    /\ test_num \in MacroTests
    /\ log' = log \o << <<": ", Desc(test_num)>>, <<": Starting">> >>
    /\ pc' = "loop"
    /\ ip' = 1
    /\ UNCHANGED <<platform, test_num, prim, task, pin, drive, gpio_out, gpio_before,
                   stray,
                   regs, panic_msg, first_write, prev_write, last_write, since,
                   pause_before, pause_of, pause_old, cyc, period, nop_pend,
                   suspends, services, now, start, expires, npause>>

\* the arms T14..T18: log lines, drive strength, then the assembly routine
MatchAsm ==
    /\ pc = "match"
    /\ test_num \in AsmTests
    /\ log' = log \o AsmLog(test_num, platform)
    /\ drive' = AsmDrive(test_num, drive)
    /\ pc' = "prologue"
    /\ ip' = 1
    /\ UNCHANGED <<platform, test_num, prim, task, pin, gpio_out, gpio_before, stray,
                   regs, panic_msg, first_write, prev_write, last_write, since,
                   pause_before, pause_of, pause_old, cyc, period, nop_pend,
                   suspends, services, now, start, expires, npause>>

\* the arm T19: log lines, expires = Instant::now(), then the loop
MatchDeadline ==
    /\ pc = "match"
    /\ test_num = "T19"
    /\ log' = log \o DeadlineLog
    /\ start' = now
    /\ expires' = now
    /\ pc' = "loop"
    /\ ip' = 1
    /\ UNCHANGED <<platform, test_num, prim, task, pin, drive, gpio_out, gpio_before,
                   stray,
                   regs, panic_msg, first_write, prev_write, last_write, since,
                   pause_before, pause_of, pause_old, cyc, period, nop_pend,
                   suspends, services, now, npause>>

\* the arm _ : unimplemented!
MatchUnimplemented ==
    /\ pc = "match"
    /\ test_num \notin Implemented
    /\ panic_msg' = UnimplementedMsg(test_num)
    /\ pc' = "panicked"
    /\ UNCHANGED <<platform, test_num, ip, prim, task, pin, drive, gpio_out, gpio_before,
                   stray,
                   regs, log, first_write, prev_write, last_write, since,
                   pause_before, pause_of, pause_old, cyc, period, nop_pend,
                   suspends, services, now, start, expires, npause>>

(***************************************************************************)
(* Steps of the code at pc: the loop body, the prologue of the assembly    *)
(* routines, or a primitive on its own.                                    *)
(***************************************************************************)
\* a loop that ends after one pass
AfterLastBreak(q) ==
    CASE q = "prologue" -> "loop"
      [] q = "loop" -> "returned"
      [] q = "prim" -> "prim_done"

\* where control goes after the last operation of the code at position q:
\* `loop { ... }` has no break, so the body starts again
AfterLast(q) ==
    CASE q = "prologue" -> "loop"
      [] q = "loop" -> "loop"
      [] q = "prim" -> "prim_done"

Advance ==
    IF ip < Len(Code)
    THEN pc' = pc /\ ip' = ip + 1
    ELSE pc' = AfterLast(pc) /\ ip' = 1

\* operations that belong to a pause: neither a pin write, nor the loop branch,
\* nor the address load
IsPauseOp(ins) ==
    ins.fn \notin {"pin", "set_gpio2_high", "set_gpio2_low", "loop",
                   "asm_load_gpio_out_addr"}

\* bookkeeping of a write to the pin that leaves it at level l
PinWritten(l) ==
    /\ first_write' = IF first_write = "none" THEN l ELSE first_write
    /\ prev_write' = last_write
    /\ last_write' = l
    /\ pause_before' = since
    /\ pause_old' = pause_of[last_write]
    /\ pause_of' = [pause_of EXCEPT ![last_write] = Known(since)]
    /\ since' = <<>>
    /\ suspends' = 0
    /\ services' = 0

NoPinWrite ==
    UNCHANGED <<first_write, prev_write, last_write, pause_before, pause_old, pause_of>>

\* $pin.set_high(): sets bit 2 of the output register, leaves the other bits
SetHigh ==
    /\ Running
    /\ Cur.op = "set_high"
    /\ gpio_out' = SetBit(gpio_out, 2)
    /\ gpio_before' = gpio_out
    /\ pin' = Level(gpio_out')
    /\ PinWritten(pin')
    /\ Advance
    /\ UNCHANGED <<platform, test_num, prim, task, drive, stray, regs, log, panic_msg,
                   cyc, period, nop_pend, now, start, expires, npause>>

\* $pin.set_low(): clears bit 2 of the output register, leaves the other bits
SetLow ==
    /\ Running
    /\ Cur.op = "set_low"
    /\ gpio_out' = ClearBit(gpio_out, 2)
    /\ gpio_before' = gpio_out
    /\ pin' = Level(gpio_out')
    /\ PinWritten(pin')
    /\ Advance
    /\ UNCHANGED <<platform, test_num, prim, task, drive, stray, regs, log, panic_msg,
                   cyc, period, nop_pend, now, start, expires, npause>>

\* Timer::after_micros(d).await: the task suspends until the timer wakes it
TimerAfter ==
    /\ Running
    /\ Cur.op = "timer_after"
    /\ task' = "suspended"
    /\ since' = Append(since, Cur)
    /\ suspends' = suspends + 1
    /\ services' = services + 1
    /\ NoPinWrite
    /\ UNCHANGED <<platform, test_num, pc, ip, prim, pin, drive, gpio_out, gpio_before,
                   stray, regs,
                   log, panic_msg, cyc, period, nop_pend, now, start, expires, npause>>

\* Delay.delay_us(d) and Delay.delay_ns(d): spin on the timer, no suspension
DelayBlocking ==
    /\ Running
    /\ Cur.op \in {"delay_us", "delay_ns"}
    /\ since' = Append(since, Cur)
    /\ services' = services + 1
    /\ NoPinWrite
    /\ Advance
    /\ UNCHANGED <<platform, test_num, prim, task, pin, drive, gpio_out, gpio_before,
                   stray, regs,
                   log, panic_msg, cyc, period, nop_pend, suspends, now, start,
                   expires, npause>>

\* cortex_m::asm::delay(n): a counted loop, no timer, no suspension
CortexDelayStep ==
    /\ Running
    /\ Cur.op = "cm_delay"
    /\ since' = Append(since, Cur)
    /\ NoPinWrite
    /\ Advance
    /\ UNCHANGED <<platform, test_num, prim, task, pin, drive, gpio_out, gpio_before,
                   stray, regs,
                   log, panic_msg, cyc, period, nop_pend, suspends, services, now,
                   start, expires, npause>>

\* yield_now().await: the task suspends once and is woken at once
YieldNow ==
    /\ Running
    /\ Cur.op = "yield_now"
    /\ task' = "suspended"
    /\ since' = Append(since, Cur)
    /\ suspends' = suspends + 1
    /\ NoPinWrite
    /\ UNCHANGED <<platform, test_num, pc, ip, prim, pin, drive, gpio_out, gpio_before,
                   stray, regs,
                   log, panic_msg, cyc, period, nop_pend, services, now, start,
                   expires, npause>>

\* the deadline derived from the current time instead of the running instant
ExpiresFromNow ==
    /\ Running
    /\ Cur.op = "expires_add"
    /\ now + Cur.imm <= MaxTime
    /\ expires' = now + Cur.imm
    /\ npause' = npause + 1
    /\ since' = Append(since, Cur)
    /\ NoPinWrite
    /\ Advance
    /\ UNCHANGED <<platform, test_num, prim, task, pin, drive, gpio_out, gpio_before,
                   stray, regs,
                   log, panic_msg, cyc, period, nop_pend, suspends, services, now,
                   start>>

\* expires += _10us
ExpiresAdd ==
    /\ Running
    /\ Cur.op = "expires_add"
    /\ expires + Cur.imm <= MaxTime
    /\ expires' = expires + Cur.imm
    /\ npause' = npause + 1
    /\ since' = Append(since, Cur)
    /\ NoPinWrite
    /\ Advance
    /\ UNCHANGED <<platform, test_num, prim, task, pin, drive, gpio_out, gpio_before,
                   stray, regs,
                   log, panic_msg, cyc, period, nop_pend, suspends, services, now,
                   start>>

\* Timer::at(expires).await: the task suspends until the timer wakes it
TimerAt ==
    /\ Running
    /\ Cur.op = "timer_at"
    /\ task' = "suspended"
    /\ since' = Append(since, Cur)
    /\ suspends' = suspends + 1
    /\ services' = services + 1
    /\ NoPinWrite
    /\ UNCHANGED <<platform, test_num, pc, ip, prim, pin, drive, gpio_out, gpio_before,
                   stray, regs,
                   log, panic_msg, cyc, period, nop_pend, now, start, expires, npause>>

Max(a, b) == IF a >= b THEN a ELSE b

\* the executor polls the woken task, which continues after the await; a
\* deadline wait ends no earlier than its deadline and may end late
Resume ==
    /\ pc = "loop"
    /\ task = "suspended"
    /\ task' = "running"
    /\ IF Cur.op = "timer_at"
       THEN \E late \in 0..MaxLate : now' = Max(now, expires) + late
       ELSE now' = now
    /\ NoPinWrite
    /\ Advance
    /\ UNCHANGED <<platform, test_num, prim, pin, drive, gpio_out, gpio_before,
                   stray, regs,
                   log, panic_msg, since, cyc, period, nop_pend, suspends, services,
                   start, expires, npause>>

\* the value an instruction leaves in its destination register
Result(ins, r) ==
    CASE ins.op = "movs" -> Imm(ins.imm)
      [] ins.op = "lsls" -> Lsls(r[ins.rn], ins.imm)
      [] ins.op = "adds_imm" -> AddW(r[ins.rn], Imm(ins.imm))
      [] ins.op = "adds_reg" -> AddW(r[ins.rn], r[ins.rm])

\* one instruction of an asm! block.  The blocks of a routine are emitted back
\* to back: the routines compute nothing between them, so the registers keep
\* what the previous block left.
AsmInstr ==
    /\ Running
    /\ Cur.op \in {"movs", "lsls", "adds_imm", "adds_reg", "str", "nop"}
    /\ regs' = IF Cur.op \in {"str", "nop"} THEN regs
               ELSE [regs EXCEPT ![Cur.rd] = Result(Cur, regs)]
    /\ IF Cur.op = "str" /\ regs[Cur.rn] = GPIO_OUT
       THEN /\ gpio_out' = regs[Cur.rd]
            /\ gpio_before' = gpio_out
            /\ pin' = Level(gpio_out')
            /\ PinWritten(pin')
            /\ stray' = stray
       ELSE /\ stray' = (stray \/ Cur.op = "str")
            /\ since' = IF IsPauseOp(Cur) THEN Append(since, Cur) ELSE since
            /\ NoPinWrite
            /\ UNCHANGED <<gpio_out, gpio_before, pin, suspends, services>>
    /\ cyc' = IF ip = Len(Code) /\ pc = "prologue" THEN ZeroCyc
              ELSE Count(cyc, platform, Cur, nop_pend)
    /\ nop_pend' = NopPending(platform, Cur, nop_pend)
    /\ Advance
    /\ UNCHANGED <<platform, test_num, prim, task, drive, log, panic_msg, period,
                   now, start, expires, npause>>

\* the backward branch that closes the loop of an assembly routine
Branch ==
    /\ Running
    /\ Cur.op = "b"
    /\ period' = Count(cyc, platform, Cur, nop_pend)
    /\ cyc' = ZeroCyc
    /\ nop_pend' = FALSE
    /\ NoPinWrite
    /\ Advance
    /\ UNCHANGED <<platform, test_num, prim, task, pin, drive, gpio_out, gpio_before,
                   stray, regs,
                   log, panic_msg, since, suspends, services, now, start, expires,
                   npause>>

Next ==
    \/ Main
    \/ Entry
    \/ MatchMacro
    \/ MatchAsm
    \/ MatchDeadline
    \/ MatchUnimplemented
    \/ SetHigh
    \/ SetLow
    \/ TimerAfter
    \/ DelayBlocking
    \/ CortexDelayStep
    \/ YieldNow
    \/ ExpiresAdd
    \/ TimerAt
    \/ Resume
    \/ AsmInstr
    \/ Branch

Spec == Init /\ [][Next]_vars

(***************************************************************************)
(* A primitive on its own: any primitive, on either platform, entered      *)
(* with any register contents, run from its first instruction to its last. *)
(***************************************************************************)
PrimRegValues == {Imm(0), Ones, GPIO_OUT}

\* contents of the output register on entry to a primitive
PrimGpioValues == {Imm(0), Imm(4), Imm(251), Ones}

PrimInit ==
    /\ platform \in Platforms
    /\ test_num = "T14"
    /\ pc = "prim"
    /\ ip = 1
    /\ prim \in Primitives
    /\ regs \in [RegNames -> PrimRegValues]
    /\ now = 0
    /\ gpio_out \in PrimGpioValues
    /\ gpio_before = gpio_out
    /\ Fresh

PrimNext == AsmInstr

PrimSpec == PrimInit /\ [][PrimNext]_vars

(***************************************************************************)
(* Properties.                                                             *)
(***************************************************************************)
\* the number of the build feature that selected the running test
Number == CHOOSE n \in Features : TestNumGet(n) = test_num

InLoop == pc = "loop"

IsDigit(c) == \E d \in 1..10 : DigitChars[d] = c

DigitVal(c) == (CHOOSE d \in 1..10 : DigitChars[d] = c) - 1

RECURSIVE ParseDigits(_)
ParseDigits(ds) ==
    IF ds = <<>> THEN 0
    ELSE ParseDigits(SubSeq(ds, 1, Len(ds) - 1)) * 10 + DigitVal(ds[Len(ds)])

\* C1: for every implemented test 1..19, once the toggle loop is entered, no
\* step leaves it: control never returns from it, never exits it and never
\* reaches the panicked state.
C1_LoopNeverExits ==
    [][(InLoop /\ Number \in 1..19)
          => (InLoop' /\ panic_msg' = <<>> /\ ip' \in 1..Len(Code))]_vars

\* the loop of some test has gone round: a second drive-high after a drive-low
C1_Witness == InLoop /\ prev_write = "low" /\ last_write = "high"

\* C2: every test number 1..19 resolves to a toggle loop (or the prologue of
\* its assembly routine) without a panic; every number 20..25 panics with a
\* message whose digits read exactly that number, and never drives the pin
\* high, never writes the pin and never enters a loop.
C2_SelectorTotal ==
    /\ (Number \in 1..19 /\ pc \notin {"main", "single_gpio", "match"})
          => (pc \in {"prologue", "loop"} /\ panic_msg = <<>>)
    /\ Number \in 20..25
          => /\ pc \in {"main", "single_gpio", "match", "panicked"}
             /\ pin # "high"
             /\ first_write = "none"
             /\ task = "running"
    /\ (Number \in 20..25 /\ pc \notin {"main", "single_gpio", "match"})
          => /\ pc = "panicked"
             /\ ParseDigits(SelectSeq(panic_msg, IsDigit)) = Number

C2_Witness == pc = "panicked" /\ Number = 20 /\ panic_msg # <<>>

\* what C3 says of the order of the pin writes, for every test 1..19: the pin
\* is low until the first write, the first write drives it high, and every
\* write drives the level the previous one did not
WritesAlternate ==
    (Number \in 1..19 /\ pc \in {"prologue", "loop"})
        => /\ first_write = "none" => (pin = "low" /\ last_write = "none")
           /\ first_write # "none" => (first_write = "high" /\ pin = last_write)
           /\ prev_write # "none" => prev_write # last_write
           /\ stray = FALSE

\* the pause between two writes is the one of the iteration before
SamePauseEveryIteration ==
    (Number \in 1..19 /\ InLoop /\ pause_old.set) => pause_old.ops = pause_before

\* the tests whose loop has no pause operation between the pin writes
NoPauseTests == {13, 17, 18}

\* C3 as stated: in every test 1..19 the writes alternate from a low pin,
\* starting high, and exactly one pause, the same in every iteration, lies
\* between any two consecutive writes.
C3_AsStated ==
    /\ WritesAlternate
    /\ SamePauseEveryIteration
    /\ (Number \in 1..19 /\ InLoop /\ prev_write # "none") => pause_before # <<>>

\* C3, amended: in every test 1..19 the writes alternate from a low pin,
\* starting high, and the operations between two consecutive writes are the
\* same in every iteration; they are one pause in every test except 13, 17
\* and 18, where no pause operation lies between two consecutive writes.
C3_AlternatingWrites ==
    /\ WritesAlternate
    /\ SamePauseEveryIteration
    /\ (Number \in 1..19 /\ InLoop /\ prev_write # "none")
          => (pause_before = <<>> <=> Number \in NoPauseTests)

\* a third write has happened after a pause that repeats the one of the
\* iteration before, in a test with a pause
C3_Witness ==
    /\ InLoop /\ Number = 9
    /\ pause_old.set /\ pause_old.ops = pause_before /\ Len(pause_before) = 2

\* the period, in ns, of a loop iteration of c cycles is exactly ns
PeriodIs(c, ns) == c * 1000 = ns * ClockMHz(platform)

Completed == InLoop /\ period.total # 0

\* C4: one iteration of asm_toggle_gpio2_period_200ns (test 15) takes 25
\* cycles on the Pico and 30 on the Pico 2, which is exactly 200 ns on both.
C4_Period200ns ==
    (Number = 15 /\ Completed)
        => /\ period.total = IF IS_PICO2(platform) THEN 30 ELSE 25
           /\ period.total = period.work /\ period.nop = 0
           /\ PeriodIs(period.total, 200)

C4_Witness == Number = 15 /\ Completed /\ IS_PICO2(platform) /\ last_write = "high"

\* C5: one iteration of asm_toggle_gpio2_period_80ns (test 16) takes 10
\* cycles on the Pico and 12 on the Pico 2, which is 80 ns on both.
C5_Period80ns ==
    (Number = 16 /\ Completed)
        => /\ period.total = IF IS_PICO2(platform) THEN 12 ELSE 10
           /\ PeriodIs(period.total, 80)

C5_Witness == Number = 16 /\ Completed /\ IS_PICO2(platform) /\ last_write = "high"

\* C6: on the Pico one iteration of asm_toggle_gpio2_period_200ns_pico (test
\* 14) is 8 cycles of work and 17 cycles of no-ops, 25 in total, i.e. 200 ns.
C6_Work8Nops17 ==
    (Number = 14 /\ Completed /\ ~IS_PICO2(platform))
        => /\ period.work = 8
           /\ period.nop = 17
           /\ period.total = 25
           /\ PeriodIs(period.total, 200)

\* C7: on the Pico 2 one iteration of the same loop (test 14) takes 15
\* cycles, i.e. 100 ns.
C7_Pico2Period100ns ==
    (Number = 14 /\ Completed /\ IS_PICO2(platform))
        => /\ period.total = 15
           /\ PeriodIs(period.total, 100)

C7_Witness == Number = 14 /\ Completed /\ IS_PICO2(platform) /\ last_write = "high"

\* C8: one iteration of asm_toggle_gpio2_period_min (tests 17 and 18) has a
\* period of 48 ns on the Pico and of 34 ns on the Pico 2.
C8_MinPeriod ==
    (Number \in {17, 18} /\ Completed)
        => PeriodIs(period.total, IF IS_PICO2(platform) THEN 34 ELSE 48)

\* C10: in the blocking-spin tests and the raw-cycle tests the task never
\* suspends in the loop: no operation of the loop is an await, no suspension
\* has happened since the last write and the task is running; the raw-cycle
\* tests call no delay or timer service either.
BlockingSpinTests == {4, 5, 6, 7, 8, 12}
RawCycleTests == {14, 15, 16, 17, 18}

SuspendingOps == {"timer_after", "timer_at", "yield_now"}
ServiceOps == {"timer_after", "timer_at", "delay_us", "delay_ns"}

C10_NeverSuspends ==
    /\ (Number \in BlockingSpinTests \cup RawCycleTests /\ InLoop)
          => /\ task = "running"
             /\ suspends = 0
             /\ Cur.op \notin SuspendingOps
             /\ \A i \in 1..Len(since) : since[i].op \notin SuspendingOps
    /\ (Number \in RawCycleTests /\ InLoop)
          => /\ services = 0
             /\ Cur.op \notin ServiceOps \cup {"cm_delay"}
             /\ \A i \in 1..Len(since) : since[i].op \notin ServiceOps \cup {"cm_delay"}

\* a blocking-spin test has completed a pause and written the pin after it
C10_Witness ==
    /\ Number = 4 /\ InLoop /\ last_write = "low"
    /\ pause_before # <<>> /\ pause_before[1].op = "delay_us"

\* the cycles each primitive's name (or, for the pin writes, its comment) states
NamedCycles(f) ==
    CASE f = "set_gpio2_high" -> 2
      [] f = "set_gpio2_low" -> 2
      [] f = "asm_1_cycle_r2" -> 1
      [] f = "asm_2_cycles_add_r2" -> 2
      [] f = "asm_3_cycles_add_r2" -> 3
      [] f = "asm_5_cycles_r2" -> 5
      [] f = "asm_9_cycles_add_r2" -> 9
      [] f = "asm_10_cycles_add_r2" -> 10
      [] f = "asm_9_cycles_nop" -> 9
      [] f = "asm_10_cycles_nop" -> 10

NopPrimitives == {"asm_9_cycles_nop", "asm_10_cycles_nop"}

PrimDone == pc = "prim_done"

\* every primitive is a straight line of as many instructions as its name says
StraightLine ==
    PrimDone
        => /\ Len(PrimCode(prim)) = NamedCycles(prim)
           /\ \A i \in 1..Len(PrimCode(prim)) : PrimCode(prim)[i].op # "b"

\* C9 as stated: every primitive, run from any register contents on either
\* platform, is a straight line of as many single-cycle instructions as its
\* name says and takes exactly that many cycles (2 for each pin write).
C9_AsStated ==
    /\ StraightLine
    /\ PrimDone => cyc.total = NamedCycles(prim)

\* C9, amended: every primitive, run from any register contents, is a
\* straight line of as many instructions as its name says; on the Pico each
\* takes exactly that many cycles, and so do the movs/adds primitives and the
\* pin writes on the Pico 2; the two nop primitives take fewer cycles than
\* named on the Pico 2.
C9_NamedCycles ==
    /\ StraightLine
    /\ (PrimDone /\ (~IS_PICO2(platform) \/ prim \notin NopPrimitives))
          => cyc.total = NamedCycles(prim)
    /\ (PrimDone /\ IS_PICO2(platform) /\ prim \in NopPrimitives)
          => cyc.total < NamedCycles(prim)

\* the five-cycle primitive has run to its end from all-ones registers
C9_Witness ==
    /\ PrimDone /\ prim = "asm_5_cycles_r2"
    /\ regs["r0"] = Ones /\ regs["r1"] = Ones /\ cyc.total = 5


CooperativeWaitTests == {1, 2, 3}
SpinThenYieldTests == {9, 10, 11}

\* the next operation is a pin write that follows an earlier pin write
AtLaterWrite == InLoop /\ task = "running" /\ Cur.fn = "pin" /\ last_write # "none"

\* the number of operations of a pause that are suspension points
RECURSIVE Suspensions(_)
Suspensions(ops) ==
    IF ops = <<>> THEN 0
    ELSE Suspensions(Tail(ops)) + (IF Head(ops).op \in SuspendingOps THEN 1 ELSE 0)

\* C11: in the cooperative-wait tests (1, 2, 3) every pause is one
\* Timer::after_micros await and passes through exactly one suspension point:
\* the task is suspended only inside that await, and when the next pin write
\* is reached exactly one suspension has happened since the last write; the
\* pause after the high write and the pause after the low write each do so,
\* two suspensions an iteration.
C11_OneSuspensionPerPause ==
    (Number \in CooperativeWaitTests /\ InLoop)
        => /\ suspends = Suspensions(since)
           /\ suspends <= 1
           /\ task = "suspended" => (suspends = 1 /\ Cur.op = "timer_after")
           /\ AtLaterWrite => (suspends = 1 /\ Len(since) = 1
                                 /\ since[1].op = "timer_after")
           /\ prev_write # "none" => Suspensions(pause_before) = 1
           /\ (pause_of["high"].set /\ pause_of["low"].set)
                 => Suspensions(pause_of["high"].ops) + Suspensions(pause_of["low"].ops) = 2

\* a cooperative-wait test is about to drive the pin high again, having
\* suspended once after the high write and once after the low write
C11_Witness ==
    /\ Number = 2 /\ AtLaterWrite /\ Cur.op = "set_high" /\ suspends = 1
    /\ pause_of["high"].set /\ Suspensions(pause_of["high"].ops) = 1

\* C12: in the spin-then-yield tests (9, 10, 11) every pause runs the whole
\* blocking delay without suspending and only then yields, exactly once; the
\* next pin write is reached only with the task running again after that one
\* yield.
C12_SpinThenYieldOnce ==
    (Number \in SpinThenYieldTests /\ InLoop)
        => /\ suspends = Suspensions(since)
           /\ Len(since) >= 1 => since[1].op = "delay_us"
           /\ suspends = (IF Len(since) = 2 THEN 1 ELSE 0)
           /\ Len(since) = 2 => since[2].op = "yield_now"
           /\ Len(since) <= 2
           /\ task = "suspended" => (Len(since) = 2 /\ Cur.op = "yield_now")
           /\ AtLaterWrite => (Len(since) = 2 /\ suspends = 1)
           /\ prev_write # "none"
                 => (Len(pause_before) = 2 /\ pause_before[1].op = "delay_us"
                       /\ pause_before[2].op = "yield_now")

\* a spin-then-yield test has written the pin after a pause of one blocking
\* delay followed by one yield
C12_Witness ==
    /\ Number = 10 /\ InLoop /\ last_write = "low" /\ prev_write = "high"
    /\ Len(pause_before) = 2 /\ pause_before[2].op = "yield_now"


\* the period added to the deadline before each wait of test 19, in ticks
DeadlineStep == 10

\* C13: in the deadline test (19) the deadline awaited by the k-th pause is
\* the instant read once before the loop plus k times 10 microseconds,
\* whatever the wake-up times of the earlier pauses were (a wake-up may be
\* later than the next deadline); after every low pause, i.e. every full
\* iteration, the deadline has advanced by a multiple of 20 microseconds.
C13_DeadlineNoDrift ==
    (Number = 19 /\ InLoop)
        => /\ expires = start + npause * DeadlineStep
           /\ Cur.op = "timer_at" => (npause >= 1 /\ expires = start + npause * DeadlineStep)
           /\ Cur.op = "set_high" => expires - start = (npause \div 2) * (2 * DeadlineStep)
           /\ Cur.op = "set_high" => npause % 2 = 0
           /\ now >= start

\* the fourth pause awaits its deadline although an earlier wake-up was so
\* late that the current time is already past that deadline
C13_Witness ==
    /\ Number = 19 /\ InLoop /\ Cur.op = "timer_at" /\ npause = 4
    /\ now > expires /\ expires = start + 40


SameAsmTests == {14, 17, 18}

\* the nominal-period line of each platform in the diagnostics of test n
PicoLine(n) ==
    IF n = 14 THEN ": 200ns period using asm (Pico)"
    ELSE ": 48ns period using asm (Pico)"

Pico2Line(n) ==
    IF n = 14 THEN ": 100ns period using asm (Pico 2)"
    ELSE ": 34ns period using asm (Pico 2)"

\* the lines of the log that start with text, and those marked as selected
LinesOf(text) == {i \in 1..Len(log) : log[i][1] = text}
MarkedLines == {i \in 1..Len(log) : log[i][Len(log[i])] = "<== selected"}

\* C14: in the tests that run the same assembly on both platforms (14, 17,
\* 18) the diagnostics hold one line for the Pico's nominal period and one
\* for the Pico 2's, exactly one line of the log is marked as selected, and
\* it is the line of the platform the firmware runs on; all of this is in
\* the log before the address load and the loop start, hence before the
\* first pin write, and no line is added afterwards.
C14_SelectedPeriod ==
    /\ (Number \in SameAsmTests /\ pc \in {"prologue", "loop"})
          => /\ Cardinality(LinesOf(PicoLine(Number))) = 1
             /\ Cardinality(LinesOf(Pico2Line(Number))) = 1
             /\ Cardinality(MarkedLines) = 1
             /\ MarkedLines = LinesOf(IF IS_PICO2(platform) THEN Pico2Line(Number)
                                      ELSE PicoLine(Number))
             /\ log[Len(log)] = <<": Starting">>
    /\ (Number \in SameAsmTests /\ pc \in {"main", "single_gpio", "match"})
          => (first_write = "none" /\ MarkedLines = {})

\* test 17 on the Pico 2 has written the pin, with its own line marked
C14_Witness ==
    /\ Number = 17 /\ IS_PICO2(platform) /\ InLoop /\ last_write = "low"
    /\ MarkedLines = LinesOf(": 34ns period using asm (Pico 2)")
    /\ Cardinality(MarkedLines) = 1


TimeBasedTests == (1..11) \cup {19}

\* the period each time-based test states in its description (tests 1..11)
\* or its log lines (test 19), in nanoseconds
StatedPeriodNs(n) ==
    CASE n \in {1, 4, 9} -> 200 * 1000
      [] n \in {2, 5, 10, 19} -> 20 * 1000
      [] n \in {3, 7, 11} -> 2 * 1000
      [] n = 6 -> 4 * 1000
      [] n = 8 -> 200

\* the duration an operation of a pause asks for, in nanoseconds
RequestedNs(ins) ==
    CASE ins.op \in {"timer_after", "delay_us", "expires_add"} -> ins.imm * 1000
      [] ins.op = "delay_ns" -> ins.imm
      [] OTHER -> 0

RECURSIVE PauseNs(_)
PauseNs(ops) == IF ops = <<>> THEN 0 ELSE RequestedNs(Head(ops)) + PauseNs(Tail(ops))

\* C15: in every time-based test (1..11 and 19) each pause asks for half the
\* period the test states, and the pause after the high write and the pause
\* after the low write of an iteration ask for the same duration, so the two
\* pauses of an iteration add up to the stated period.
C15_PeriodIsTwicePause ==
    (Number \in TimeBasedTests /\ InLoop)
        => /\ prev_write # "none" => 2 * PauseNs(pause_before) = StatedPeriodNs(Number)
           /\ (pause_of["high"].set /\ pause_of["low"].set)
                 => /\ PauseNs(pause_of["high"].ops) = PauseNs(pause_of["low"].ops)
                    /\ PauseNs(pause_of["high"].ops) + PauseNs(pause_of["low"].ops)
                          = StatedPeriodNs(Number)

\* test 8 has completed a high pause and a low pause of 100 ns each
C15_Witness ==
    /\ Number = 8 /\ InLoop /\ pause_of["high"].set /\ pause_of["low"].set
    /\ PauseNs(pause_of["high"].ops) = 100 /\ PauseNs(pause_of["low"].ops) = 100


OtherBits == (0..31) \ {2}

\* C16: set_gpio2_high and set_gpio2_low, entered with r0 holding the
\* address of the GPIO output register, store a whole word to it: after
\* set_gpio2_high bit 2 is 1, after set_gpio2_low bit 2 is 0, and in both
\* cases every other bit of the register is 0 whatever the register held
\* before (the earlier value is not preserved).
C16_WholeWordStore ==
    (PrimDone /\ prim \in {"set_gpio2_high", "set_gpio2_low"} /\ regs["r0"] = GPIO_OUT)
        => /\ Bit(gpio_out, 2) = (IF prim = "set_gpio2_high" THEN 1 ELSE 0)
           /\ \A b \in OtherBits : Bit(gpio_out, b) = 0
           /\ gpio_out = (IF prim = "set_gpio2_high" THEN Imm(4) ELSE Imm(0))
           /\ gpio_before \in PrimGpioValues
           /\ stray = FALSE

\* set_gpio2_high has run on an output register that had every bit set: the
\* other bits are now clear
C16_Witness ==
    /\ PrimDone /\ prim = "set_gpio2_high" /\ regs["r0"] = GPIO_OUT
    /\ gpio_before = Ones /\ gpio_out = Imm(4)


\* the instructions that write a register
WritingOps == {"movs", "lsls", "adds_imm", "adds_reg"}

\* 0xd0000010
GpioOutAddress == <<208, 0, 0, 16>>

\* C17: in every raw-cycle test (14..18), from the first instruction of the
\* loop on, r0 holds 0xd0000010, the value the address load computes as
\* (0xd0 << 24) + 0x10 and equal to SIO_BASE + 0x010; so it does at every
\* str of set_gpio2_high and set_gpio2_low, every store goes to the GPIO
\* output register, and every register-writing instruction of the loop
\* writes r1 or r2, never r0.
C17_R0HoldsGpioOut ==
    (Number \in RawCycleTests /\ InLoop)
        => /\ regs["r0"] = GpioOutAddress
           /\ regs["r0"] = GPIO_OUT
           /\ Cur.op = "str" => (Cur.rn = "r0" /\ regs[Cur.rn] = GPIO_OUT)
           /\ stray = FALSE
           /\ \A i \in 1..Len(Code) :
                 Code[i].op \in WritingOps => Code[i].rd \in {"r1", "r2"}

\* test 15 is about to store in set_gpio2_low, after the adds delay of the
\* high pause has run, with r0 still holding the address
C17_Witness ==
    /\ Number = 15 /\ InLoop /\ Cur.op = "str" /\ Cur.fn = "set_gpio2_low"
    /\ Len(since) >= 10
    /\ regs["r0"] = GpioOutAddress /\ regs["r1"] = Imm(0)

====
